---- MODULE Spec2Model ----
(***************************************************************************)
(* skillex: ZipArchiveBuilder.create_archive over a small filesystem.      *)
(*                                                                         *)
(* A path is a sequence of names, <<>> being the root.  The filesystem fs  *)
(* is a function from the paths that exist to their nodes.  One            *)
(* create_archive invocation is a process p whose position is pc[p]; every *)
(* filesystem call of the method is one step, so that the states between   *)
(* two calls are states of the model.                                      *)
(***************************************************************************)
EXTENDS Integers, Sequences, FiniteSets, TLC

VARIABLES
    fs,               \* path -> node, for the paths that exist
    pc,               \* per invocation: position in create_archive
    source_dir,       \* the source_dir argument
    output_path,      \* the output_path argument
    source_dir_path,  \* Path(source_dir).resolve()
    output_path_obj,  \* Path(output_path).resolve()
    temp_path,        \* the local temp_path, Unbound until assigned
    walk,             \* os.walk's position: [dirs, files] still to visit
    exc,              \* the exception in flight or raised: [kind, cause]
    ret,              \* the returned path, Unbound until returned
    pre,              \* history: fs as it was when the call began
    hist,             \* history: what the call has done so far
    val,              \* PathValidator: the last two validate_path calls
    disc,             \* SkillDiscoveryService: _cache and what the calls saw
    pkg,              \* PackagingService: the call in progress and its result
    vres              \* ValidationResult objects and the last method called

\* The state of one create_archive world, and of the services around it.
archive_vars == <<fs, pc, source_dir, output_path, source_dir_path,
                  output_path_obj, temp_path, walk, exc, ret, pre, hist>>
service_vars == <<val, disc, pkg, vres>>
vars == <<fs, pc, source_dir, output_path, source_dir_path, output_path_obj,
          temp_path, walk, exc, ret, pre, hist, val, disc, pkg, vres>>

Procs == {1, 2}

(***************************************************************************)
(* Paths                                                                   *)
(***************************************************************************)
Unbound == <<"<unbound>">>

Parent(p) == IF p = <<>> THEN <<>> ELSE SubSeq(p, 1, Len(p) - 1)

BaseName(p) == IF p = <<>> THEN "" ELSE p[Len(p)]

IsPrefix(a, b) == Len(a) <= Len(b) /\ SubSeq(b, 1, Len(a)) = a

\* PurePath.relative_to: p with the leading base removed
RelativeTo(p, base) == SubSeq(p, Len(base) + 1, Len(p))

(***************************************************************************)
(* File contents and nodes                                                 *)
(***************************************************************************)
\* A plain file's bytes, named by id.
Blob(id) == [fmt |-> "blob", id |-> id, entries |-> <<>>, closed |-> FALSE,
             damage |-> "none"]

\* What NamedTemporaryFile leaves: a zero-byte file.
EmptyFile == Blob("")

\* A ZIP file: the entries written, whether the central directory was
\* written (closed), and how the stored bytes are damaged, if at all.
Zip(entries, closed, damage) ==
    [fmt |-> "zip", id |-> "", entries |-> entries, closed |-> closed,
     damage |-> damage]

NoData == Blob("-")

DirNode == [kind |-> "dir", data |-> NoData, target |-> <<>>]
FileNode(data) == [kind |-> "file", data |-> data, target |-> <<>>]
LinkNode(target) == [kind |-> "link", data |-> NoData, target |-> target]
Absent == [kind |-> "none", data |-> NoData, target |-> <<>>]

NodeAt(f, p) == IF p \in DOMAIN f THEN f[p] ELSE Absent

\* os.path.realpath / Path.resolve(strict=False): follow every symlink,
\* collapse "..", keep components that do not exist.
RECURSIVE ResolveFrom(_, _, _)
ResolveFrom(f, done, rest) ==
    IF rest = <<>> THEN done
    ELSE LET n == Head(rest) IN
         IF n = ".." THEN ResolveFrom(f, Parent(done), Tail(rest))
         ELSE LET q == Append(done, n) IN
              IF NodeAt(f, q).kind = "link"
              THEN ResolveFrom(f, <<>>, f[q].target \o Tail(rest))
              ELSE ResolveFrom(f, q, Tail(rest))

Resolve(f, p) == ResolveFrom(f, <<>>, p)

\* Path.exists() / Path.is_dir() / Path.is_symlink() on a resolved path
Exists(f, p) == NodeAt(f, Resolve(f, p)).kind # "none"
IsDir(f, p) == NodeAt(f, Resolve(f, p)).kind = "dir"
IsSymlink(f, p) == NodeAt(f, p).kind = "link"

Children(f, d) == {q \in DOMAIN f : Len(q) = Len(d) + 1 /\ IsPrefix(d, q)}

(***************************************************************************)
(* Filesystem calls                                                        *)
(***************************************************************************)
Without(f, p) == [q \in DOMAIN f \ {p} |-> f[q]]

With(f, p, node) == [q \in DOMAIN f \cup {p} |-> IF q = p THEN node ELSE f[q]]

\* The ancestors-or-self of d that Path.mkdir(parents=True) has to create,
\* and whether it can: it cannot below something that is not a directory.
Prefixes(d) == {SubSeq(d, 1, k) : k \in 1..Len(d)}
MissingDirs(f, d) == {q \in Prefixes(d) : q \notin DOMAIN f}
MkdirBlocked(f, d) == \E q \in Prefixes(d) : q \in DOMAIN f /\ f[q].kind # "dir"

\* A mkdir without parents=True: only the last directory is made.
FsMkdirLeaf(f, d, k) == With(f, d, DirNode)
\* Path.mkdir(parents=True, exist_ok=True) having created the missing
\* directories down to depth k (all of them when k = Len(d)).
FsMkdirs(f, d, k) ==
    [q \in DOMAIN f \cup {m \in MissingDirs(f, d) : Len(m) <= k} |->
        IF q \in DOMAIN f THEN f[q] ELSE DirNode]

\* os.replace(src, dst): dst now names src's file, src is gone.
FsReplaceCopy(f, src, dst) == With(f, dst, f[src])
FsReplace(f, src, dst) == Without(With(f, dst, f[src]), src)

\* os.unlink
FsUnlinkNothing(f, p) == f
FsUnlink(f, p) == Without(f, p)

(***************************************************************************)
(* The world the calls run in                                              *)
(***************************************************************************)
SrcReal == <<"w", "X", "Y">>
ExtDir == <<"w", "ext">>
OutDir == <<"w", "out">>

\* The scratch names tempfile may draw (".tmp_" + random + ".zip").
NumTmpNames == 2
TmpNames == {".tmp_" \o ToString(i) \o ".zip" : i \in 1..NumTmpNames}

\* The nested file of the source tree lies MaxDepth directories down.
MaxDepth == 2
NestedDir(k) == SrcReal \o [i \in 1..k |-> "sub"]
NestedFile == Append(NestedDir(MaxDepth), "b.txt")

\* What is always there.
BaseFs ==
    (<<>> :> DirNode) @@ (<<"w">> :> DirNode) @@
    (<<"w", "X">> :> DirNode) @@ (SrcReal :> DirNode) @@
    (<<"w", "L">> :> LinkNode(SrcReal)) @@
    (<<"w", "afile">> :> FileNode(Blob("F"))) @@
    (ExtDir :> DirNode) @@ (Append(ExtDir, "e.txt") :> FileNode(Blob("E"))) @@
    (OutDir :> DirNode) @@ (Append(OutDir, "d") :> DirNode)

\* What may be there: the files of the source tree (a file, a nested file,
\* a symlink to a file outside, a symlink to a directory outside), an
\* earlier archive at either destination, a scratch file orphaned earlier.
Optional ==
    [a     |-> (Append(SrcReal, "a.txt") :> FileNode(Blob("A"))),
     b     |-> [q \in {NestedDir(k) : k \in 1..MaxDepth} |-> DirNode] @@
               (NestedFile :> FileNode(Blob("B"))),
     fl    |-> (Append(SrcReal, "flink") :> LinkNode(Append(ExtDir, "e.txt"))),
     dl    |-> (Append(SrcReal, "dlink") :> LinkNode(ExtDir)),
     old   |-> (Append(OutDir, "o.zip") :> FileNode(Blob("OLD"))),
     oldin |-> (Append(SrcReal, "in.zip") :> FileNode(Blob("OLDIN"))),
     orph  |-> (Append(OutDir, ".tmp_1.zip") :> FileNode(Zip(<<>>, FALSE, "none")))]

RECURSIVE Union(_, _)
Union(parts, keys) ==
    IF keys = {} THEN BaseFs
    ELSE LET k == CHOOSE k \in keys : TRUE IN parts[k] @@ Union(parts, keys \ {k})

\* The arguments a caller may pass.
SourceArgs ==
    { SrcReal,                          \* a directory
      <<"w", "L">>,                     \* a symlink to that directory
      <<"w", "ext", "..", "X", "Y">>,   \* the same, not canonical
      <<"w", "nope">>,                  \* missing
      <<"w", "afile">> }                \* a regular file

OutputArgs ==
    { Append(OutDir, "o.zip"),          \* parent exists
      <<"w", "new", "deep", "o.zip">>,  \* parent and grandparent missing
      <<"w", "afile", "sub", "o.zip">>, \* below a regular file
      <<"w", "L", "in.zip">>,           \* inside the source tree
      Append(OutDir, "d") }             \* an existing directory

(***************************************************************************)
(* Exceptions                                                              *)
(***************************************************************************)
NoExc == [kind |-> "none", cause |-> "none"]
Exc(kind, cause) == [kind |-> kind, cause |-> cause]

NoWalk == [dirs |-> {}, files |-> {}]

NoHist == [wrote |-> FALSE, verified |-> FALSE, found |-> "none",
           cleanup |-> "none", primary |-> NoExc, scanned |-> {},
           steps |-> << >>, replaced |-> Absent]

\* What val, disc and pkg hold before their service is first called.
NoCall == [path |-> Unbound, base |-> Unbound, fsv |-> << >>,
           out |-> [kind |-> "none", value |-> Unbound]]
NoVal == [last |-> NoCall, prev |-> NoCall, origin |-> NoCall]
\* None, or a list of skills
NoCache == [some |-> FALSE, skills |-> << >>]
Cached(skills) == [some |-> TRUE, skills |-> skills]
NoDisc == [cache |-> NoCache, returned |-> NoCache, op |-> "none",
           cleared |-> FALSE, listable |-> TRUE, tick |-> 0]
\* A PackagingResult before anything is packaged
NoResult == [successful |-> << >>, failed |-> << >>, total_skills |-> 0,
             total_size_bytes |-> 0, validated |-> FALSE]
NoPkg == [pc |-> "idle", op |-> "none", arg |-> "", skip |-> FALSE,
          callback |-> FALSE, dc |-> TRUE, trace |-> << >>, matched |-> << >>,
          index |-> 0, result |-> NoResult, exc |-> NoExc]

\* No create_archive invocation has begun.
ArchiveIdle ==
    /\ pc = [p \in Procs |-> "idle"]
    /\ source_dir = [p \in Procs |-> Unbound]
    /\ output_path = [p \in Procs |-> Unbound]
    /\ source_dir_path = [p \in Procs |-> Unbound]
    /\ output_path_obj = [p \in Procs |-> Unbound]
    /\ temp_path = [p \in Procs |-> Unbound]
    /\ walk = [p \in Procs |-> NoWalk]
    /\ exc = [p \in Procs |-> NoExc]
    /\ ret = [p \in Procs |-> Unbound]
    /\ pre = [p \in Procs |-> << >>]
    /\ hist = [p \in Procs |-> NoHist]

\* ValidationResult(): is_valid = True, errors = [], warnings = []
DefaultResult == [is_valid |-> TRUE, errors |-> << >>, warnings |-> << >>]
ResultIds == {"a", "b"}
NoVres == [obj |-> [x \in ResultIds |-> DefaultResult], op |-> "none"]

ServicesIdle == val = NoVal /\ disc = NoDisc /\ pkg = NoPkg /\ vres = NoVres

Init ==
    /\ \E keys \in SUBSET DOMAIN Optional : fs = Union(Optional, keys)
    /\ ArchiveIdle
    /\ ServicesIdle

(***************************************************************************)
(* create_archive, step by step                                            *)
(***************************************************************************)
\* The call: both arguments are resolved to absolute form.
\* The statements of create_archive in program order: where control goes
\* when the statement at pcv ends without raising (from the except clause:
\* out of the method).
\* A create_archive that renames without the integrity scan.
ThenSkippingScan(pcv) ==
    CASE pcv = "check_source" -> "output_dir"
      [] pcv = "output_dir" -> "create_temp"
      [] pcv = "create_temp" -> "open"
      [] pcv = "open" -> "walk"
      [] pcv = "walk" -> "rename"
      [] pcv = "validate" -> "rename"
      [] pcv = "rename" -> "returned"
      [] pcv = "except" -> "raised"
\* A create_archive that starts over with a new scratch file after a
\* failure.
ThenRetrying(pcv) ==
    CASE pcv = "check_source" -> "output_dir"
      [] pcv = "output_dir" -> "create_temp"
      [] pcv = "create_temp" -> "open"
      [] pcv = "open" -> "walk"
      [] pcv = "walk" -> "validate"
      [] pcv = "validate" -> "rename"
      [] pcv = "rename" -> "returned"
      [] pcv = "except" -> "create_temp"
Then(pcv) ==
    CASE pcv = "check_source" -> "output_dir"
      [] pcv = "output_dir" -> "create_temp"
      [] pcv = "create_temp" -> "open"
      [] pcv = "open" -> "walk"
      [] pcv = "walk" -> "validate"
      [] pcv = "validate" -> "rename"
      [] pcv = "rename" -> "returned"
      [] pcv = "except" -> "raised"

\* The phase of create_archive a statement belongs to.
StepOf(pcv) ==
    CASE pcv = "check_source" -> "source_check"
      [] pcv = "output_dir" -> "parent_dir"
      [] pcv = "create_temp" -> "scratch"
      [] pcv \in {"open", "walk"} -> "write"
      [] pcv = "validate" -> "scan"
      [] pcv = "rename" -> "rename"
      [] pcv = "except" -> "cleanup"

\* History: the phase p is in has ended, well or not, having worked on the
\* scratch file at path.
LoggedAt(p, ok, path) ==
    [hist EXCEPT ![p].steps =
        Append(@, [step |-> StepOf(pc[p]), ok |-> ok, path |-> path])]
Logged(p, ok) == LoggedAt(p, ok, temp_path[p])

\* A source argument taken as written.
UnresolvedArg(f, s) == s
\* Path(source_dir).resolve()
ResolvedArg(f, s) == Resolve(f, s)

Call(p) ==
    /\ pc[p] = "idle"
    /\ UNCHANGED service_vars
    /\ \E s \in SourceArgs, o \in OutputArgs :
        /\ source_dir' = [source_dir EXCEPT ![p] = s]
        /\ output_path' = [output_path EXCEPT ![p] = o]
        /\ source_dir_path' = [source_dir_path EXCEPT ![p] = ResolvedArg(fs, s)]
        /\ output_path_obj' = [output_path_obj EXCEPT ![p] = Resolve(fs, o)]
    /\ pre' = [pre EXCEPT ![p] = fs]
    /\ pc' = [pc EXCEPT ![p] = "check_source"]
    /\ UNCHANGED <<fs, temp_path, walk, exc, ret, hist>>

\* Raised outside the try block: the exception reaches the caller as it is.
RaiseNow(p, e) ==
    /\ exc' = [exc EXCEPT ![p] = e]
    /\ pc' = [pc EXCEPT ![p] = "raised"]

\* Raised inside the try block: the except clause runs next.
RaiseInTry(p, e) ==
    /\ exc' = [exc EXCEPT ![p] = e]
    /\ pc' = [pc EXCEPT ![p] = "except"]

\* The source must exist and be a directory.
SourceExists(f, src) == Exists(f, src)
SourceIsValid(f, src) == Exists(f, src) /\ IsDir(f, src)

CheckSource(p) ==
    /\ pc[p] = "check_source"
    /\ UNCHANGED service_vars
    /\ IF ~SourceIsValid(fs, source_dir_path[p])
       THEN RaiseNow(p, Exc("ArchiveCreationError", "none"))
       ELSE pc' = [pc EXCEPT ![p] = Then(pc[p])] /\ UNCHANGED exc
    /\ hist' = Logged(p, SourceIsValid(fs, source_dir_path[p]))
    /\ UNCHANGED <<fs, source_dir, output_path, source_dir_path,
                   output_path_obj, temp_path, walk, ret, pre>>

\* The destination's parent directory is created when it is missing
\* (FileSystemManager.create_directory, outside the try block).
OutputDir(p) == Parent(output_path_obj[p])

EnsureOutputDir(p) ==
    /\ pc[p] = "output_dir"
    /\ UNCHANGED service_vars
    /\ LET d == OutputDir(p) IN
       IF Exists(fs, d)
       THEN /\ pc' = [pc EXCEPT ![p] = Then(pc[p])]
            /\ hist' = Logged(p, TRUE)
            /\ UNCHANGED <<fs, exc>>
       ELSE IF MkdirBlocked(fs, d)
       THEN /\ RaiseNow(p, Exc("DirectoryCreateError", "OSError"))
            /\ hist' = Logged(p, FALSE)
            /\ UNCHANGED fs
       ELSE \/ /\ fs' = FsMkdirs(fs, d, Len(d))
               /\ pc' = [pc EXCEPT ![p] = Then(pc[p])]
               /\ hist' = Logged(p, TRUE)
               /\ UNCHANGED exc
            \* mkdir fails part of the way down
            \/ \E k \in (Len(d) - Cardinality(MissingDirs(fs, d)))..(Len(d) - 1),
                  kind \in {"DirectoryCreateError", "PermissionDeniedError"} :
                 /\ fs' = FsMkdirs(fs, d, k)
                 /\ RaiseNow(p, Exc(kind, "OSError"))
                 /\ hist' = Logged(p, FALSE)
    /\ UNCHANGED <<source_dir, output_path, source_dir_path, output_path_obj,
                   temp_path, walk, ret, pre>>

\* tempfile.NamedTemporaryFile(prefix=".tmp_", suffix=".zip", dir=output_dir,
\* delete=False): a new zero-byte file under a name nothing has.
\* A scratch name drawn without looking at what exists.
AnyTmp(f, d) == {Append(d, n) : n \in TmpNames}
\* One scratch name per directory.
FixedTmp(f, d) == {Append(d, ".tmp_1.zip")}
FreeTmp(f, d) == {Append(d, n) : n \in {m \in TmpNames : Append(d, m) \notin DOMAIN f}}

CreateTemp(p) ==
    /\ pc[p] = "create_temp"
    /\ UNCHANGED service_vars
    /\ LET d == OutputDir(p) IN
       \/ /\ IsDir(fs, d)
          /\ \E t \in FreeTmp(fs, d) :
               /\ fs' = With(fs, t, FileNode(EmptyFile))
               /\ temp_path' = [temp_path EXCEPT ![p] = t]
               /\ hist' = LoggedAt(p, TRUE, t)
          /\ pc' = [pc EXCEPT ![p] = Then(pc[p])]
          /\ UNCHANGED exc
       \* not a directory, no name left, no permission, no space
       \/ /\ RaiseInTry(p, Exc("OSError", "none"))
          /\ hist' = Logged(p, FALSE)
          /\ UNCHANGED <<fs, temp_path>>
    /\ UNCHANGED <<source_dir, output_path, source_dir_path, output_path_obj,
                   walk, ret, pre>>

TempData(p) == NodeAt(fs, temp_path[p]).data

\* _write_archive: zipfile.ZipFile(archive_path, mode="w") truncates the
\* scratch file; os.walk starts at the source directory.
OpenArchive(p) ==
    /\ pc[p] = "open"
    /\ UNCHANGED service_vars
    /\ \/ /\ fs' = With(fs, temp_path[p], FileNode(Zip(<<>>, FALSE, "none")))
          /\ walk' = [walk EXCEPT ![p] = [dirs |-> {source_dir_path[p]}, files |-> {}]]
          /\ pc' = [pc EXCEPT ![p] = Then(pc[p])]
          /\ UNCHANGED <<exc, hist>>
       \/ /\ RaiseInTry(p, Exc("ArchiveCreationError", "OSError"))
          /\ hist' = Logged(p, FALSE)
          /\ UNCHANGED <<fs, walk>>
    /\ UNCHANGED <<source_dir, output_path, source_dir_path, output_path_obj,
                   temp_path, ret, pre>>

\* os.walk(followlinks=False) recurses into a listed directory only when it
\* is not a symlink.
WalkDescends(f, c) == ~IsSymlink(f, c)

\* os.walk lists one directory: entries that are directories (symlinks
\* followed) are its dirs, all others its files.
ScanDir(p) ==
    /\ pc[p] = "walk"
    /\ UNCHANGED service_vars
    /\ walk[p].files = {}
    /\ walk[p].dirs # {}
    /\ LET d == CHOOSE d \in walk[p].dirs : TRUE
           kids == Children(fs, d)
           dirs == {c \in kids : IsDir(fs, c)}
       IN  /\ walk' = [walk EXCEPT ![p] =
                    [dirs |-> (walk[p].dirs \ {d}) \cup
                              {c \in dirs : WalkDescends(fs, c)},
                     files |-> kids \ dirs]]
           /\ hist' = [hist EXCEPT ![p].scanned = @ \cup {d}]
    /\ UNCHANGED <<fs, pc, source_dir, output_path, source_dir_path,
                   output_path_obj, temp_path, exc, ret, pre>>

\* "Skip symlinks (security)"
SkipNothing(f, file_path) == FALSE
SkipFile(f, file_path) == IsSymlink(f, file_path)

\* arcname = file_path.relative_to(source_dir.parent)
ArcNameBare(file_path, src) == RelativeTo(file_path, src)
ArcName(file_path, src) == RelativeTo(file_path, Parent(src))

\* One file of the current directory: skipped when it is a symlink, else
\* written under its arcname.  zf.write may raise; leaving the with block
\* on an exception closes the archive, which may or may not succeed.
WriteFile(p) ==
    /\ pc[p] = "walk"
    /\ UNCHANGED service_vars
    /\ walk[p].files # {}
    /\ LET f == CHOOSE f \in walk[p].files : TRUE
           z == TempData(p)
       IN  /\ walk' = [walk EXCEPT ![p].files = @ \ {f}]
           /\ IF SkipFile(fs, f)
              THEN UNCHANGED <<fs, pc, exc, hist>>
              ELSE \/ /\ f \in DOMAIN fs
                      /\ fs' = With(fs, temp_path[p], FileNode(Zip(
                             Append(z.entries,
                                    [name |-> ArcName(f, source_dir_path[p]),
                                     data |-> NodeAt(fs, Resolve(fs, f)).data]),
                             FALSE, "none")))
                      /\ UNCHANGED <<pc, exc, hist>>
                   \/ \E e \in {Exc("ArchiveCreationError", "OSError"),
                                Exc("ArchiveCreationError", "BadZipFile"),
                                Exc("ValueError", "none")},
                         closed \in BOOLEAN :
                        /\ fs' = With(fs, temp_path[p],
                                      FileNode(Zip(z.entries, closed, "none")))
                        /\ RaiseInTry(p, e)
                        /\ hist' = Logged(p, FALSE)
    /\ UNCHANGED <<source_dir, output_path, source_dir_path, output_path_obj,
                   temp_path, ret, pre>>

\* The walk is over: the with block closes the archive.  What reaches the
\* disk is the archive, the archive with an entry's bytes damaged (its
\* checksum no longer matches, or its deflate stream no longer decodes), a
\* truncated archive or nothing at all; or closing raises.
CloseArchive(p) ==
    /\ pc[p] = "walk"
    /\ UNCHANGED service_vars
    /\ walk[p].files = {}
    /\ walk[p].dirs = {}
    /\ LET z == TempData(p) IN
       \/ /\ \E data \in {Zip(z.entries, TRUE, "none"),
                          Zip(z.entries, FALSE, "none"), EmptyFile}
                         \cup (IF z.entries = <<>> THEN {}
                               ELSE {Zip(z.entries, TRUE, "crc"),
                                     Zip(z.entries, TRUE, "stream")}) :
               fs' = With(fs, temp_path[p], FileNode(data))
          /\ hist' = [Logged(p, TRUE) EXCEPT ![p].wrote = TRUE]
          /\ pc' = [pc EXCEPT ![p] = Then(pc[p])]
          /\ UNCHANGED exc
       \/ /\ RaiseInTry(p, Exc("ArchiveCreationError", "OSError"))
          /\ hist' = Logged(p, FALSE)
          /\ UNCHANGED fs
    /\ UNCHANGED <<source_dir, output_path, source_dir_path, output_path_obj,
                   temp_path, walk, ret, pre>>

\* _validate_archive skipped: every scratch file passes.
ValidateNothing(p) ==
    /\ pc[p] = "validate"
    /\ UNCHANGED service_vars
    /\ hist' = [Logged(p, TRUE) EXCEPT ![p].verified = TRUE]
    /\ pc' = [pc EXCEPT ![p] = Then(pc[p])]
    /\ UNCHANGED <<fs, source_dir, output_path, source_dir_path,
                   output_path_obj, temp_path, walk, exc, ret, pre>>

\* _validate_archive: reopen the scratch file and run testzip().  BadZipFile
\* and OSError become ArchiveIntegrityError; testzip() reports a checksum
\* mismatch by name, and lets a decompression error through.
ValidateArchive(p) ==
    /\ pc[p] = "validate"
    /\ UNCHANGED service_vars
    /\ LET z == TempData(p) IN
       \/ /\ RaiseInTry(p, Exc("ArchiveIntegrityError", "OSError"))
          /\ hist' = Logged(p, FALSE)
       \/ /\ temp_path[p] \in DOMAIN fs
          /\ IF z.fmt # "zip" \/ ~z.closed
             THEN /\ hist' = [Logged(p, FALSE) EXCEPT ![p].found = "malformed"]
                  /\ RaiseInTry(p, Exc("ArchiveIntegrityError", "BadZipFile"))
             ELSE IF z.damage = "crc"
             THEN /\ hist' = [Logged(p, FALSE) EXCEPT ![p].found = "badentry"]
                  /\ RaiseInTry(p, Exc("ArchiveIntegrityError", "none"))
             ELSE IF z.damage = "stream"
             THEN /\ hist' = [Logged(p, FALSE) EXCEPT ![p].found = "badentry"]
                  /\ RaiseInTry(p, Exc("zlib.error", "none"))
             ELSE /\ hist' = [Logged(p, TRUE) EXCEPT ![p].verified = TRUE]
                  /\ pc' = [pc EXCEPT ![p] = Then(pc[p])]
                  /\ UNCHANGED exc
    /\ UNCHANGED <<fs, source_dir, output_path, source_dir_path,
                   output_path_obj, temp_path, walk, ret, pre>>

\* temp_path.replace(output_path_obj), then return output_path_obj.
Rename(p) ==
    /\ pc[p] = "rename"
    /\ UNCHANGED service_vars
    /\ \/ /\ temp_path[p] \in DOMAIN fs
          /\ NodeAt(fs, output_path_obj[p]).kind # "dir"
          /\ fs' = FsReplace(fs, temp_path[p], output_path_obj[p])
          /\ ret' = [ret EXCEPT ![p] = output_path_obj[p]]
          /\ pc' = [pc EXCEPT ![p] = Then(pc[p])]
          /\ hist' = [Logged(p, TRUE) EXCEPT
                          ![p].replaced = NodeAt(fs, output_path_obj[p])]
          /\ UNCHANGED exc
       \* the destination is a directory, or the rename fails otherwise
       \/ /\ RaiseInTry(p, Exc("OSError", "none"))
          /\ hist' = Logged(p, FALSE)
          /\ UNCHANGED <<fs, ret>>
    /\ UNCHANGED <<source_dir, output_path, source_dir_path, output_path_obj,
                   temp_path, walk, pre>>

\* "Re-raise as ArchiveCreationError if not already"
Reraised(e) ==
    IF e.kind \in {"ArchiveCreationError", "ArchiveIntegrityError"} THEN e
    ELSE Exc("ArchiveCreationError", e.kind)

\* The except clause deleting the destination instead of the scratch file.
CleanupTargetDest(p) == output_path_obj[p]
CleanupTarget(p) == temp_path[p]

\* except Exception: delete the scratch file if temp_path is bound and
\* exists (OSError from unlink suppressed), then re-raise.  temp_path.exists()
\* is outside the suppress block: what it raises leaves the method.
HandleException(p) ==
    /\ pc[p] = "except"
    /\ UNCHANGED service_vars
    /\ pc' = [pc EXCEPT ![p] = Then(pc[p])]
    /\ LET t == CleanupTarget(p)
           Note(c) == [Logged(p, c \notin {"exists_raised", "unlink_failed"})
                          EXCEPT ![p].cleanup = c, ![p].primary = exc[p]]
       IN
       IF temp_path[p] = Unbound
       THEN /\ exc' = [exc EXCEPT ![p] = Reraised(exc[p])]
            /\ hist' = Note("none")
            /\ UNCHANGED fs
       ELSE \/ /\ exc' = [exc EXCEPT ![p] = Exc("OSError", "none")]
               /\ hist' = Note("exists_raised")
               /\ UNCHANGED fs
            \/ /\ exc' = [exc EXCEPT ![p] = Reraised(exc[p])]
               /\ IF t \notin DOMAIN fs
                  THEN hist' = Note("nothing") /\ UNCHANGED fs
                  ELSE \/ fs' = FsUnlink(fs, t) /\ hist' = Note("deleted")
                       \/ hist' = Note("unlink_failed") /\ UNCHANGED fs
    /\ UNCHANGED <<source_dir, output_path, source_dir_path, output_path_obj,
                   temp_path, walk, ret, pre>>

Step(p) ==
    \/ Call(p)
    \/ CheckSource(p)
    \/ EnsureOutputDir(p)
    \/ CreateTemp(p)
    \/ OpenArchive(p)
    \/ ScanDir(p)
    \/ WriteFile(p)
    \/ CloseArchive(p)
    \/ ValidateArchive(p)
    \/ Rename(p)
    \/ HandleException(p)

\* One caller, one call at a time.
Next == \E p \in {1} : Step(p)

Spec == Init /\ [][Next]_vars

(***************************************************************************)
(* Properties                                                              *)
(***************************************************************************)
Dest(p) == output_path_obj[p]
Finished(p) == pc[p] \in {"returned", "raised"}
TaxonomyKinds == {"ArchiveCreationError", "ArchiveIntegrityError"}

\* The archive of the call: the scratch file until it is renamed, the
\* destination from then on.
Archive(p) == IF pc[p] = "returned" THEN NodeAt(fs, Dest(p)).data ELSE TempData(p)

IsGoodArchive(z) == z.fmt = "zip" /\ z.closed /\ z.damage = "none"

\* The regular files below src that no symlink leads to.
SourceFiles(f, src) ==
    {q \in DOMAIN f :
        /\ f[q].kind = "file"
        /\ IsPrefix(src, q)
        /\ \A k \in Len(src)..(Len(q) - 1) : f[SubSeq(q, 1, k)].kind = "dir"}

\* C1: whenever create_archive has raised, whatever the step that failed,
\* the destination path holds what it held before the call: nothing if
\* there was nothing, the same node with the same content otherwise.
C1_RaiseLeavesDestination ==
    \A p \in Procs :
        pc[p] = "raised" => NodeAt(fs, Dest(p)) = NodeAt(pre[p], Dest(p))

\* A call that wrote its scratch file, failed the integrity check and raised,
\* with an earlier file at the destination.
C1_Witness ==
    \E p \in Procs :
        /\ pc[p] = "raised"
        /\ hist[p].wrote
        /\ exc[p].kind = "ArchiveIntegrityError"
        /\ NodeAt(pre[p], Dest(p)).kind = "file"

\* C2: in every state of a call, the destination is absent, or holds what it
\* held before the call, or holds a closed, undamaged archive whose writing
\* completed and whose integrity check passed.
C2_DestinationNeverPartial ==
    \A p \in Procs :
        pc[p] # "idle" =>
            LET n == NodeAt(fs, Dest(p)) IN
            \/ n.kind = "none"
            \/ n = NodeAt(pre[p], Dest(p))
            \/ /\ n.kind = "file"
               /\ IsGoodArchive(n.data)
               /\ hist[p].wrote
               /\ hist[p].verified

\* A call that replaced an earlier file at the destination by its archive.
C2_Witness ==
    \E p \in Procs :
        /\ pc[p] = "returned"
        /\ NodeAt(pre[p], Dest(p)).kind = "file"
        /\ NodeAt(fs, Dest(p)) # NodeAt(pre[p], Dest(p))

CleanupFailed(p) == hist[p].cleanup \in {"exists_raised", "unlink_failed"}

C4_ErrorTaxonomy ==
    \A p \in Procs :
        pc[p] = "raised" =>
            /\ exc[p].kind \in TaxonomyKinds
            /\ hist[p].primary.kind \in TaxonomyKinds => exc[p] = hist[p].primary
            /\ hist[p].primary.kind \notin TaxonomyKinds \cup {"none"} =>
                   exc[p] = Exc("ArchiveCreationError", hist[p].primary.kind)

\* C5: when the verification found a damaged entry or a malformed scratch
\* file, the call raises ArchiveIntegrityError, the scratch file is gone and
\* the destination was not renamed onto.
C5_IntegrityFailure ==
    \A p \in Procs :
        Finished(p) /\ hist[p].found # "none" =>
            /\ pc[p] = "raised"
            /\ exc[p].kind = "ArchiveIntegrityError"
            /\ temp_path[p] \notin DOMAIN fs
            /\ NodeAt(fs, Dest(p)) = NodeAt(pre[p], Dest(p))

\* C6: when the resolved source is missing or not a directory, the call
\* gets no further than the source check, raises ArchiveCreationError, and
\* the filesystem is what it was: no directory made, no scratch file, the
\* destination untouched.
C6_InvalidSourceNoMutation ==
    \A p \in Procs :
        pc[p] # "idle" /\ ~IsDir(pre[p], source_dir_path[p]) =>
            /\ pc[p] \in {"check_source", "raised"}
            /\ pc[p] = "raised" => exc[p].kind = "ArchiveCreationError"
            /\ fs = pre[p]
            /\ temp_path[p] = Unbound

\* A call with a regular file as source and a destination whose parent
\* directory is missing, which has raised.
C6_Witness ==
    \E p \in Procs :
        /\ pc[p] = "raised"
        /\ NodeAt(pre[p], source_dir_path[p]).kind = "file"
        /\ ~Exists(pre[p], OutputDir(p))

\* No component of path q below src is a symlink.
NoLinkBelow(f, src, q) ==
    \A k \in (Len(src) + 1)..Len(q) : ~IsSymlink(f, SubSeq(q, 1, k))

\* C7: no entry of the archive is a symlink or lies behind a symlinked
\* directory, and the walk lists no symlinked directory.
C7_NoSymlinkEntries ==
    \A p \in Procs :
        LET src == source_dir_path[p]
            z == Archive(p)
        IN  pc[p] \in {"walk", "validate", "rename", "returned"} =>
            /\ \A i \in 1..Len(z.entries) :
                   NoLinkBelow(fs, src, Parent(src) \o z.entries[i].name)
            /\ \A d \in walk[p].dirs \cup hist[p].scanned :
                   NoLinkBelow(fs, src, d)

\* A finished archive of a tree that holds a file symlink, a directory
\* symlink and a regular file.
C7_Witness ==
    \E p \in Procs :
        /\ pc[p] = "returned"
        /\ IsSymlink(fs, Append(source_dir_path[p], "flink"))
        /\ IsSymlink(fs, Append(source_dir_path[p], "dlink"))
        /\ Len(Archive(p).entries) >= 1

\* C8 as stated: for the argument X/Y every entry name is Y/..., at least two
\* components long, and does not start with the components of X.
C8_EntriesUnderArgumentName ==
    \A p \in Procs :
        pc[p] = "returned" =>
            \A i \in 1..Len(Archive(p).entries) :
                LET n == Archive(p).entries[i].name IN
                /\ Len(n) >= 2
                /\ n[1] = BaseName(source_dir[p])
                /\ ~IsPrefix(Parent(source_dir[p]), n)

\* C8 as amended: with B the base name of the resolved source directory,
\* every entry name is B followed by the path of a file relative to the
\* resolved source directory: never bare, never starting with the parent.
C8_EntriesUnderResolvedName ==
    \A p \in Procs :
        pc[p] = "returned" =>
            \A i \in 1..Len(Archive(p).entries) :
                LET n == Archive(p).entries[i].name
                    src == source_dir_path[p]
                IN  /\ Len(n) >= 2
                    /\ n[1] = BaseName(src)
                    /\ ~IsPrefix(Parent(src), n)
                    /\ \E q \in DOMAIN pre[p] \cup {temp_path[p]} :
                           /\ IsPrefix(src, q)
                           /\ n = <<BaseName(src)>> \o RelativeTo(q, src)

\* An archive with a nested entry, made from a symlink to the source.
C8_Witness ==
    \E p \in Procs :
        /\ pc[p] = "returned"
        /\ source_dir[p] # source_dir_path[p]
        /\ BaseName(source_dir[p]) # BaseName(source_dir_path[p])
        /\ \E i \in 1..Len(Archive(p).entries) : Len(Archive(p).entries[i].name) > 2

\* C9: a returned call's archive passes the integrity check and has one
\* entry per regular file of the source tree as it was at the call, with
\* that file's content, and no other entry.
C9_RoundTrip ==
    \A p \in Procs :
        pc[p] = "returned" =>
            LET z == Archive(p)
                src == source_dir_path[p]
                files == SourceFiles(pre[p], src)
            IN  /\ IsGoodArchive(z)
                /\ Len(z.entries) = Cardinality(files)
                /\ {z.entries[i] : i \in 1..Len(z.entries)} =
                       {[name |-> <<BaseName(src)>> \o RelativeTo(q, src),
                         data |-> pre[p][q].data] : q \in files}

\* C10: a returned call returns the resolved destination path, a file at
\* that path holds the archive just written and verified, and every other
\* entry of the destination's parent directory is what it was.
C10_ReturnFrame ==
    \A p \in Procs :
        pc[p] = "returned" =>
            /\ ret[p] = Resolve(pre[p], output_path[p])
            /\ NodeAt(fs, ret[p]).kind = "file"
            /\ IsGoodArchive(NodeAt(fs, ret[p]).data)
            /\ hist[p].wrote /\ hist[p].verified
            /\ \A q \in DOMAIN fs \cup DOMAIN pre[p] :
                   Parent(q) = Parent(ret[p]) /\ q # ret[p] =>
                       NodeAt(fs, q) = NodeAt(pre[p], q)

\* A returned call that replaced an earlier file, next to an orphaned
\* scratch file of an earlier run, through a non-canonical path.
C10_Witness ==
    \E p \in Procs :
        /\ pc[p] = "returned"
        /\ NodeAt(pre[p], ret[p]).kind = "file"
        /\ \E q \in DOMAIN pre[p] : Parent(q) = Parent(ret[p]) /\ q # ret[p]
        /\ ret[p] # output_path[p]

(***************************************************************************)
(* PathValidator.validate_path                                             *)
(*                                                                         *)
(* An argument is a sequence of names as well.  A first name "." stands    *)
(* for a relative path (taken from the working directory), a first name    *)
(* "~" or "~ghost" for a path that begins with a home-directory            *)
(* reference, and the name Nul for a name with an embedded null byte.      *)
(***************************************************************************)
Cwd == <<"w", "cwd">>
Home == <<"w", "home">>
Nul == "<NUL>"

Ok(p) == [err |-> "none", path |-> p]
Failed(e) == [err |-> e, path |-> Unbound]

\* Path.expanduser(): "~" is the home directory of the caller; the home of
\* a user that does not exist cannot be determined (RuntimeError).
ExpandUser(p) ==
    IF p = <<>> THEN Ok(p)
    ELSE IF Head(p) = "~" THEN Ok(Home \o Tail(p))
    ELSE IF Head(p) = "~ghost" THEN Failed("RuntimeError")
    ELSE Ok(p)

\* os.path.abspath inside realpath: a relative path is joined to
\* os.getcwd(), which raises OSError when the working directory is gone.
Absolute(f, p) ==
    IF p # <<>> /\ Head(p) = "."
    THEN IF Cwd \in DOMAIN f THEN Ok(Cwd \o Tail(p)) ELSE Failed("OSError")
    ELSE Ok(p)

Links(f) == {q \in DOMAIN f : f[q].kind = "link"}

\* Path.resolve(strict=False): as ResolveFrom, but a symlink loop is a
\* RuntimeError and a name with a null byte is lstat's ValueError.  hops is
\* the number of symlinks that may still be followed.
RECURSIVE RealPath(_, _, _, _)
RealPath(f, done, rest, hops) ==
    IF rest = <<>> THEN Ok(done)
    ELSE LET n == Head(rest) IN
         IF n = ".." THEN RealPath(f, Parent(done), Tail(rest), hops)
         ELSE IF n = Nul THEN Failed("ValueError")
         ELSE LET q == Append(done, n) IN
              IF NodeAt(f, q).kind = "link"
              THEN IF hops = 0 THEN Failed("RuntimeError")
                   ELSE RealPath(f, <<>>, f[q].target \o Tail(rest), hops - 1)
              ELSE RealPath(f, q, Tail(rest), hops)

\* path.expanduser().resolve()
ExpandAndResolve(f, p) ==
    LET u == ExpandUser(p) IN
    IF u.err # "none" THEN u
    ELSE LET a == Absolute(f, u.path) IN
         IF a.err # "none" THEN a
         ELSE RealPath(f, <<>>, a.path, Cardinality(Links(f)) * Len(a.path))

\* A validator that only normalises the candidate, without following links.
RECURSIVE Normalise(_, _)
Normalise(done, rest) ==
    IF rest = <<>> THEN done
    ELSE IF Head(rest) = ".." THEN Normalise(Parent(done), Tail(rest))
    ELSE Normalise(Append(done, Head(rest)), Tail(rest))

ResolvedPathLexical(f, path) ==
    LET u == ExpandUser(path) IN
    IF u.err # "none" THEN u
    ELSE LET a == Absolute(f, u.path) IN
         IF a.err # "none" THEN a ELSE Ok(Normalise(<<>>, a.path))

\* resolved_path and resolved_base
ResolvedPath(f, path) == ExpandAndResolve(f, path)

\* A validator that compares against the base as it was passed.
ResolvedBaseAsGiven(f, allowed_base) ==
    LET u == ExpandUser(allowed_base) IN
    IF u.err # "none" THEN u ELSE Absolute(f, u.path)

ResolvedBase(f, allowed_base) == ExpandAndResolve(f, allowed_base)

\* PurePath.is_relative_to: the base's names are the first names of the path
\* The names of this world that begin with the characters of stem.
NameStartsWith(name, stem) == name \in {stem, stem \o "-other", stem \o "x"}
\* str(p).startswith(str(base)): the strings agree up to the end of base's
\* last name, whatever comes after it.
StringPrefix(base, p) ==
    \/ base = <<>>
    \/ /\ Len(p) >= Len(base)
       /\ SubSeq(p, 1, Len(base) - 1) = Parent(base)
       /\ NameStartsWith(p[Len(base)], BaseName(base))
\* A containment test on the strings.
IsRelativeToByString(p, base) == StringPrefix(base, p)
\* resolved_path.is_relative_to(resolved_base): by components
IsRelativeTo(p, base) == IsPrefix(base, p)

Returned(p) == [kind |-> "returned", value |-> p]
Raised(kind) == [kind |-> kind, value |-> Unbound]

\* The errors of resolution that except (OSError, RuntimeError) lets through
Escapes(err) == err \notin {"none", "OSError", "RuntimeError"}

\* The outcome of validate_path(path, allowed_base) on the filesystem f.
ValidatePathOn(f, path, allowed_base) ==
    LET rp == ResolvedPath(f, path)
        rb == ResolvedBase(f, allowed_base)
        err == IF rp.err # "none" THEN rp.err ELSE rb.err
    IN  IF Escapes(err) THEN Raised(err)
        ELSE IF err # "none" THEN Raised("SecurityError")
        ELSE IF ~IsRelativeTo(rp.path, rb.path) THEN Raised("PathTraversalError")
        ELSE Returned(rp.path)

\* A validator that remembers the base of the call before.
ValidatePathStaleBase(f, path, allowed_base) ==
    ValidatePathOn(f, path,
                   IF val.last = NoCall THEN allowed_base ELSE val.last.base)

\* A validator that returns the candidate relative to the base.
ValidatePathRelative(f, path, allowed_base) ==
    LET out == ValidatePathOn(f, path, allowed_base) IN
    IF out.kind = "returned"
    THEN Returned(RelativeTo(out.value, ResolvedBase(f, allowed_base).path))
    ELSE out

ValidatePathOutcome(f, path, allowed_base) ==
    ValidatePathOn(f, path, allowed_base)

\* The world of the validator: the base directory SrcReal with a file, a
\* link to that file and a sibling whose name begins like the base's; a
\* link to itself; a home and a working directory.
ValBaseFs ==
    BaseFs @@
    (Append(SrcReal, "a.txt") :> FileNode(Blob("A"))) @@
    (Append(SrcReal, "sub") :> DirNode) @@
    (Append(SrcReal, "inlink") :> LinkNode(Append(SrcReal, "a.txt"))) @@
    (<<"w", "X", "Y-other">> :> DirNode) @@
    (<<"w", "loop">> :> LinkNode(<<"w", "loop">>)) @@
    (Home :> DirNode)

\* What may be there: the working directory (with a directory rb), and a
\* link inside the base that points out of it, or into it.
ValOptional ==
    [cwd   |-> (Cwd :> DirNode) @@ (Append(Cwd, "rb") :> DirNode),
     dlout |-> (Append(SrcReal, "dlink") :> LinkNode(ExtDir)),
     dlin  |-> (Append(SrcReal, "dlink") :> LinkNode(Append(SrcReal, "sub")))]

RECURSIVE ValUnion(_)
ValUnion(keys) ==
    IF keys = {} THEN ValBaseFs
    ELSE LET k == CHOOSE k \in keys : TRUE
         IN ValOptional[k] @@ ValUnion(keys \ {k})

ValWorlds ==
    {ValUnion(keys) : keys \in {ks \in SUBSET DOMAIN ValOptional :
                                  ~({"dlout", "dlin"} \subseteq ks)}}

PathArgs ==
    { SrcReal,                                       \* the base itself
      Append(SrcReal, "a.txt"),                      \* a file in it
      SrcReal \o <<"ghost", "deep">>,                \* nothing on disk
      SrcReal \o <<"..", "..", "ext", "e.txt">>,     \* ".." leaves the base
      SrcReal \o <<"..", "Y", "a.txt">>,             \* leaves and re-enters
      Append(ExtDir, "e.txt"),                       \* absolute, outside
      SrcReal \o <<"dlink", "e.txt">>,               \* through a link in it
      Append(SrcReal, "inlink"),                     \* a link to a file in it
      <<"w", "L", "a.txt">>,                         \* through a link to it
      <<"w", "X", "Y-other", "f">>,                  \* the sibling
      <<"w", "X", "Yx", "file">>,                    \* another, not on disk
      <<".", "rb", "child">>,                        \* relative
      <<".", "..", "..", "etc", "passwd">>,          \* relative, climbing
      <<"~", "x">>,                                  \* the caller's home
      <<"~ghost", "x">>,                             \* nobody's home
      <<"w", "loop", "x">>,                          \* through a link loop
      SrcReal \o <<Nul, "etc", "passwd">> }          \* an embedded null byte

BaseArgs ==
    { SrcReal,                          \* canonical
      <<"w", "L">>,                     \* a symlink to it
      <<"w", "ext", "..", "X", "Y">>,   \* not canonical
      <<".", "rb">>,                    \* relative
      <<"~">>,                          \* the caller's home
      <<"w", "loop">> }                 \* a link loop

InitValidate ==
    /\ fs \in ValWorlds
    /\ ArchiveIdle
    /\ ServicesIdle

\* One call of validate_path.  It makes no call that writes, and the class
\* has no attribute: val is the history of the last call and, when the call
\* before had the same arguments, of that call.
ValidatePath ==
    \E path \in PathArgs, allowed_base \in BaseArgs :
        LET call == [path |-> path, base |-> allowed_base, fsv |-> fs,
                     out |-> ValidatePathOutcome(fs, path, allowed_base)]
        IN  /\ val' = [last |-> call,
                       prev |-> IF /\ val.last.path = path
                                   /\ val.last.base = allowed_base
                                THEN val.last ELSE NoCall,
                       origin |-> NoCall]
            /\ UNCHANGED archive_vars
            /\ UNCHANGED <<disc, pkg, vres>>

\* A caller passes what validate_path returned to validate_path again, with
\* the same base or with the base in canonical form.
ValidateAgain ==
    /\ val.last.out.kind = "returned"
    /\ val.origin = NoCall
    /\ \E allowed_base \in {val.last.base} \cup
            (IF ResolvedBase(fs, val.last.base).err = "none"
             THEN {ResolvedBase(fs, val.last.base).path} ELSE {}) :
        LET path == val.last.out.value
            call == [path |-> path, base |-> allowed_base, fsv |-> fs,
                     out |-> ValidatePathOutcome(fs, path, allowed_base)]
        IN  val' = [last |-> call, prev |-> NoCall, origin |-> val.last]
    /\ UNCHANGED archive_vars
    /\ UNCHANGED <<disc, pkg, vres>>

\* Between two calls anything else may change the filesystem.
ValidatorEnvironment ==
    /\ \E w \in ValWorlds \ {fs} : fs' = w
    /\ UNCHANGED <<pc, source_dir, output_path, source_dir_path,
                   output_path_obj, temp_path, walk, exc, ret, pre, hist>>
    /\ UNCHANGED service_vars

NextValidate == ValidatePath \/ ValidateAgain \/ ValidatorEnvironment

SpecValidate == InitValidate /\ [][NextValidate]_vars

(***************************************************************************)
(* Properties of validate_path                                             *)
(***************************************************************************)
\* The canonical form of an argument, when it has one.
Canonical(f, p) == ExpandAndResolve(f, p)
HasCanonical(f, p) == Canonical(f, p).err = "none"

\* p is b, or b is one of the directories above p.
EqualsOrDescends(p, b) == b \in {SubSeq(p, 1, k) : k \in 0..Len(p)}

\* p names its object directly: from the root, with no "..", no reference
\* to a home or working directory, and no symlink above its last name.
IsCanonical(f, p) ==
    /\ \A i \in 1..Len(p) : p[i] \notin {"..", ".", "~", "~ghost"}
    /\ \A q \in Prefixes(Parent(p)) : ~IsSymlink(f, q)

\* The argument as written: made absolute, ".." collapsed, no link followed.
Syntactic(f, p) == Normalise(<<>>, Absolute(f, ExpandUser(p).path).path)
ThroughLink(f, p) == \E q \in Prefixes(Syntactic(f, p)) : IsSymlink(f, q)

Called == val.last # NoCall
BothResolve(c) == HasCanonical(c.fsv, c.path) /\ HasCanonical(c.fsv, c.base)

\* C11: when the candidate and the base both resolve, validate_path returns
\* if and only if the canonical candidate is the canonical base or lies
\* below it, and what it returns is the canonical candidate.
C11_ReturnsIffContained ==
    LET c == val.last IN
    Called /\ BothResolve(c) =>
        LET cp == Canonical(c.fsv, c.path).path
            cb == Canonical(c.fsv, c.base).path
        IN  /\ c.out.kind = "returned" <=> EqualsOrDescends(cp, cb)
            /\ c.out.kind = "returned" =>
                   c.out.value = cp /\ IsCanonical(c.fsv, c.out.value)

\* A candidate that leaves the base by ".." and re-enters it, checked
\* against the base given as a symlink, was returned in canonical form.
C11_Witness ==
    /\ val.last.path = SrcReal \o <<"..", "Y", "a.txt">>
    /\ val.last.base = <<"w", "L">>
    /\ val.last.out = Returned(Append(SrcReal, "a.txt"))

\* C12: containment is decided on the resolved target: a candidate written
\* below the base whose path goes through a symlink and ends outside the
\* base is refused with PathTraversalError, and a candidate that goes
\* through a symlink and ends inside the base is returned as its target.
C12_DecidedOnTargets ==
    LET c == val.last IN
    Called /\ BothResolve(c) /\ ThroughLink(c.fsv, c.path) =>
        LET cp == Canonical(c.fsv, c.path).path
            cb == Canonical(c.fsv, c.base).path
        IN  /\ ~EqualsOrDescends(cp, cb) => c.out.kind = "PathTraversalError"
            /\ EqualsOrDescends(cp, cb) => c.out = Returned(cp)

\* The same candidate below the base, through the same link name, was
\* refused while the link pointed out of the base and was returned as its
\* target once the link pointed into it.
C12_Witness ==
    /\ val.prev.path = SrcReal \o <<"dlink", "e.txt">>
    /\ val.prev.base = SrcReal
    /\ EqualsOrDescends(Syntactic(val.prev.fsv, val.prev.path), SrcReal)
    /\ val.prev.out = Raised("PathTraversalError")
    /\ val.last.out = Returned(SrcReal \o <<"sub", "e.txt">>)

\* C13: validate_path fails in two ways only: with SecurityError (and not
\* PathTraversalError) when the candidate or the base cannot be resolved,
\* with PathTraversalError when both resolve and containment fails.
C13_TwoFailureKinds ==
    LET c == val.last IN
    Called =>
        /\ c.out.kind \in {"returned", "SecurityError", "PathTraversalError"}
        /\ ~BothResolve(c) => c.out.kind = "SecurityError"
        /\ BothResolve(c) => c.out.kind # "SecurityError"

MereStringPrefix(c) ==
    /\ BothResolve(c)
    /\ StringPrefix(Canonical(c.fsv, c.base).path, Canonical(c.fsv, c.path).path)
    /\ ~EqualsOrDescends(Canonical(c.fsv, c.path).path, Canonical(c.fsv, c.base).path)

\* C26: a candidate whose canonical path only begins with the characters
\* of the canonical base (a sibling <base>-other, or <base>x/file) is
\* refused with PathTraversalError.
C26_ContainmentByComponents ==
    Called /\ MereStringPrefix(val.last) =>
        val.last.out = Raised("PathTraversalError")

\* The sibling <base>x/file was refused, checked against the base given
\* as a symlink.
C26_Witness ==
    /\ val.last.path = <<"w", "X", "Yx", "file">>
    /\ val.last.base = <<"w", "L">>
    /\ MereStringPrefix(val.last)
    /\ val.last.out = Raised("PathTraversalError")

\* C30: on an unchanged filesystem, passing the path that validate_path
\* returned for a base to validate_path again, with that base or with its
\* canonical form, returns the same path.
C30_IdempotentOnResult ==
    val.origin # NoCall /\ val.origin.fsv = val.last.fsv =>
        /\ val.last.path = val.origin.out.value
        /\ val.last.base \in {val.origin.base,
                              Canonical(val.origin.fsv, val.origin.base).path}
        /\ val.last.out = Returned(val.origin.out.value)

\* A candidate written with ".." through a symlinked base was returned in
\* canonical form, and that result passed again against the canonical base.
C30_Witness ==
    /\ val.origin.path = SrcReal \o <<"..", "Y", "a.txt">>
    /\ val.origin.base = <<"w", "L">>
    /\ val.origin.fsv = val.last.fsv
    /\ val.last.path = Append(SrcReal, "a.txt")
    /\ val.last.base = SrcReal
    /\ val.last.out = Returned(Append(SrcReal, "a.txt"))

(***************************************************************************)
(* Concurrent create_archive invocations                                   *)
(*                                                                         *)
(* Two invocations, each a thread or a process of its own: every step of   *)
(* one may fall between any two steps of the other.  The steps are those   *)
(* of create_archive above; only the arguments are drawn from smaller      *)
(* sets, one per invocation, so that the destinations differ.              *)
(***************************************************************************)
\* An empty directory for one invocation, a directory with a file for the
\* other.
ConcSourceArgs ==
    [p \in Procs |-> IF p = 1 THEN {Append(OutDir, "d")} ELSE {SrcReal}]

ConcOutputArgs ==
    [p \in Procs |->
        IF p = 1 THEN { Append(OutDir, "o.zip"),         \* next to the other's
                        Append(SrcReal, "in.zip") }      \* in the other's source
        ELSE { Append(OutDir, "p.zip"),
               <<"w", "new", "deep", "p.zip">> }]        \* a directory of its own

ConcWorlds == {Optional.old @@ Optional.a @@ BaseFs}

InitConc ==
    /\ fs \in ConcWorlds
    /\ ArchiveIdle
    /\ ServicesIdle

ConcCall(p) ==
    /\ pc[p] = "idle"
    /\ UNCHANGED service_vars
    /\ \E s \in ConcSourceArgs[p], o \in ConcOutputArgs[p] :
        /\ source_dir' = [source_dir EXCEPT ![p] = s]
        /\ output_path' = [output_path EXCEPT ![p] = o]
        /\ source_dir_path' = [source_dir_path EXCEPT ![p] = Resolve(fs, s)]
        /\ output_path_obj' = [output_path_obj EXCEPT ![p] = Resolve(fs, o)]
    /\ pre' = [pre EXCEPT ![p] = fs]
    /\ pc' = [pc EXCEPT ![p] = "check_source"]
    /\ UNCHANGED <<fs, temp_path, walk, exc, ret, hist>>

ConcStep(p) ==
    \/ ConcCall(p)
    \/ CheckSource(p)
    \/ EnsureOutputDir(p)
    \/ CreateTemp(p)
    \/ OpenArchive(p)
    \/ ScanDir(p)
    \/ WriteFile(p)
    \/ CloseArchive(p)
    \/ ValidateArchive(p)
    \/ Rename(p)
    \/ HandleException(p)

NextConc == \E p \in Procs : ConcStep(p)

SpecConc == InitConc /\ [][NextConc]_vars

(***************************************************************************)
(* Properties of concurrent invocations                                    *)
(***************************************************************************)
\* The invocation has a scratch file it may still write, scan, rename or
\* delete.
InUse(p) ==
    /\ temp_path[p] # Unbound
    /\ pc[p] \in {"open", "walk", "validate", "rename", "except"}

\* The step is a step of invocation q.
Moved(q) ==
    \/ pc'[q] # pc[q]
    \/ walk'[q] # walk[q]
    \/ hist'[q] # hist[q]
    \/ temp_path'[q] # temp_path[q]
    \/ exc'[q] # exc[q]

\* C15: two concurrent invocations never have the same scratch path in
\* use, and no step of one invocation touches the scratch file the other
\* has in use.
C15_ScratchPathsDistinct ==
    /\ [](\A p, q \in Procs :
             p # q /\ InUse(p) /\ InUse(q) => temp_path[p] # temp_path[q])
    /\ [][\A p, q \in Procs :
             p # q /\ InUse(p) /\ Moved(q) =>
                 NodeAt(fs', temp_path[p]) = NodeAt(fs, temp_path[p])]_vars

\* Both invocations are in the middle of their walks, with scratch files
\* in the same directory.
C15_Witness ==
    /\ pc[1] = "walk" /\ pc[2] = "walk"
    /\ InUse(1) /\ InUse(2)
    /\ Parent(temp_path[1]) = Parent(temp_path[2])
    /\ temp_path[1] \in DOMAIN fs /\ temp_path[2] \in DOMAIN fs

\* What the invocation leaves when it runs alone: its destination as it
\* was when it raises; when it returns, at its destination, the verified
\* archive of the regular files its source held when the call began.
AsIfAlone(p) ==
    /\ pc[p] = "raised" => NodeAt(fs, Dest(p)) = NodeAt(pre[p], Dest(p))
    /\ pc[p] = "returned" =>
           LET z == NodeAt(fs, Dest(p)).data
               src == source_dir_path[p]
               files == SourceFiles(pre[p], src)
           IN  /\ ret[p] = Dest(p)
               /\ IsGoodArchive(z)
               /\ Len(z.entries) = Cardinality(files)
               /\ {z.entries[i] : i \in 1..Len(z.entries)} =
                      {[name |-> ArcName(q, src), data |-> pre[p][q].data] :
                           q \in files}

OtherDestinations(p) ==
    \A q \in Procs \ {p} : pc[q] # "idle" => Dest(q) # Dest(p)

\* No other invocation works in a directory of this invocation's source.
SourceApart(p) ==
    \A q \in Procs \ {p} :
        pc[q] # "idle" => ~IsPrefix(source_dir_path[p], OutputDir(q))

C17_PrimaryErrorSurvivesCleanup ==
    \A p \in Procs :
        pc[p] = "raised" /\ CleanupFailed(p) =>
            exc[p] = Reraised(hist[p].primary)

(***************************************************************************)
(* Concurrent create_archive invocations with one destination              *)
(*                                                                         *)
(* The two invocations archive different directories to the same           *)
(* output_path, where an earlier archive may be.                           *)
(***************************************************************************)
SameDest == Append(OutDir, "o.zip")

SameSourceArgs == [p \in Procs |-> IF p = 1 THEN ExtDir ELSE SrcReal]

SameWorlds == {Optional.old @@ Optional.a @@ BaseFs, Optional.a @@ BaseFs}

InitSame ==
    /\ fs \in SameWorlds
    /\ ArchiveIdle
    /\ ServicesIdle

SameCall(p) ==
    /\ pc[p] = "idle"
    /\ UNCHANGED service_vars
    /\ source_dir' = [source_dir EXCEPT ![p] = SameSourceArgs[p]]
    /\ output_path' = [output_path EXCEPT ![p] = SameDest]
    /\ source_dir_path' = [source_dir_path EXCEPT ![p] = Resolve(fs, SameSourceArgs[p])]
    /\ output_path_obj' = [output_path_obj EXCEPT ![p] = Resolve(fs, SameDest)]
    /\ pre' = [pre EXCEPT ![p] = fs]
    /\ pc' = [pc EXCEPT ![p] = "check_source"]
    /\ UNCHANGED <<fs, temp_path, walk, exc, ret, hist>>

SameStep(p) ==
    \/ SameCall(p)
    \/ CheckSource(p)
    \/ EnsureOutputDir(p)
    \/ CreateTemp(p)
    \/ OpenArchive(p)
    \/ ScanDir(p)
    \/ WriteFile(p)
    \/ CloseArchive(p)
    \/ ValidateArchive(p)
    \/ Rename(p)
    \/ HandleException(p)

NextSame == \E p \in Procs : SameStep(p)

SpecSame == InitSame /\ [][NextSame]_vars

\* z is the complete, verified archive of p's source directory.
IsArchiveOf(p, z) ==
    LET src == source_dir_path[p]
        files == SourceFiles(pre[p], src)
    IN  /\ pc[p] # "idle"
        /\ IsGoodArchive(z)
        /\ Len(z.entries) = Cardinality(files)
        /\ {z.entries[i] : i \in 1..Len(z.entries)} =
               {[name |-> ArcName(q, src), data |-> pre[p][q].data] : q \in files}

PriorVersion == IF SameDest \in DOMAIN Optional.old THEN Optional.old[SameDest] ELSE Absent

Renamed(p) == pc[p] = "returned"
\* Of the invocations that renamed, p did so last: the file it replaced
\* was the other's archive.
RenamedLast(p) ==
    /\ Renamed(p)
    /\ \A q \in Procs \ {p} : Renamed(q) => IsArchiveOf(q, hist[p].replaced.data)

\* C29: with one destination for both invocations, the destination is at
\* every moment absent, its prior version, or the complete verified
\* archive of one invocation; it changes only in a successful rename, to
\* the archive of the invocation that renames; when both have finished it
\* holds the archive of the one that renamed last (its prior state if
\* none did); and a cleanup changes neither the destination nor the other
\* invocation's scratch file.
C29_SameDestinationLastWins ==
    /\ [](LET d == NodeAt(fs, SameDest) IN
          /\ \/ d = Absent
             \/ d = PriorVersion
             \/ \E p \in Procs : d.kind = "file" /\ IsArchiveOf(p, d.data)
          /\ (\A p \in Procs : Finished(p)) =>
                 IF \E p \in Procs : Renamed(p)
                 THEN \E p \in Procs :
                          /\ RenamedLast(p)
                          /\ IsArchiveOf(p, d.data)
                          /\ \A q \in Procs \ {p} : ~RenamedLast(q)
                 ELSE \A p \in Procs : d = NodeAt(pre[p], SameDest))
    /\ [][\A p \in Procs :
             /\ NodeAt(fs', SameDest) # NodeAt(fs, SameDest) /\ Moved(p) =>
                    /\ pc[p] = "rename" /\ pc'[p] = "returned"
                    /\ NodeAt(fs', SameDest) = NodeAt(fs, temp_path[p])
                    /\ IsArchiveOf(p, NodeAt(fs', SameDest).data)
             /\ pc[p] = "except" /\ pc'[p] = "raised" =>
                    /\ NodeAt(fs', SameDest) = NodeAt(fs, SameDest)
                    /\ \A q \in Procs \ {p} :
                           InUse(q) => NodeAt(fs', temp_path[q]) = NodeAt(fs, temp_path[q])]_vars

\* Both invocations renamed onto the destination, one after the other,
\* over an earlier archive; the destination holds the second one's archive.
C29_Witness ==
    /\ Renamed(1) /\ Renamed(2)
    /\ RenamedLast(1)
    /\ hist[2].replaced = PriorVersion /\ PriorVersion # Absent
    /\ IsArchiveOf(1, NodeAt(fs, SameDest).data)
    /\ ~IsArchiveOf(2, NodeAt(fs, SameDest).data)

(***************************************************************************)
(* SkillDiscoveryService                                                   *)
(*                                                                         *)
(* disc.cache is self._cache; disc.returned is the list the last           *)
(* discover_all returned, disc.op the last method called, disc.cleared     *)
(* whether clear_cache was called since the last discover_all, and         *)
(* disc.tick the number of calls modulo 2.  disc.listable tells whether    *)
(* the skills directory can be listed (its permissions allow it).          *)
(***************************************************************************)
SkillsDir == <<"w", "skills">>

\* The names a skill may have, in the order sort() puts them.
SkillNames == <<"alpha", "beta", "gamma">>
NameSet == {SkillNames[i] : i \in 1..Len(SkillNames)}
SkillPath(n) == Append(SkillsDir, n)

\* A skill: a directory with one file.
SkillTree(n) ==
    (SkillPath(n) :> DirNode) @@
    (Append(SkillPath(n), "SKILL.md") :> FileNode(Blob(n)))

RECURSIVE SkillTrees(_)
SkillTrees(names) ==
    IF names = {} THEN << >>
    ELSE LET n == CHOOSE n \in names : TRUE
         IN SkillTree(n) @@ SkillTrees(names \ {n})

Ground == (<<>> :> DirNode) @@ (<<"w">> :> DirNode)

\* The skills directory, with a file that is no skill, and some skills.
SkillsFs(names) ==
    Ground @@ (SkillsDir :> DirNode) @@
    (Append(SkillsDir, "README.md") :> FileNode(Blob("R"))) @@
    SkillTrees(names)

\* No skills directory, or a regular file in its place.
NoSkillsFs == Ground
SkillsIsFileFs == Ground @@ (SkillsDir :> FileNode(Blob("S")))

DiscWorlds ==
    {SkillsFs(names) : names \in SUBSET NameSet} \cup {NoSkillsFs, SkillsIsFileFs}

\* _count_files: the regular files below the directory, symlinks left out
CountFiles(f, directory) ==
    Cardinality({q \in DOMAIN f :
                    /\ f[q].kind = "file"
                    /\ q # directory
                    /\ IsPrefix(directory, q)})

SkillInfo(f, item_path) ==
    [name |-> BaseName(item_path), path |-> item_path,
     file_count |-> CountFiles(f, item_path)]

\* skills.sort(key=lambda s: s.name)
SortByName(f, items) ==
    LET names == {BaseName(i) : i \in items}
        order == SelectSeq(SkillNames, LAMBDA n : n \in names)
    IN  [i \in 1..Len(order) |->
            SkillInfo(f, CHOOSE c \in items : BaseName(c) = order[i])]

\* The scan of discover_all: nothing when the skills directory is missing,
\* is no directory or cannot be listed; else its directories, by name.
ScanSkills(f, listable) ==
    IF ~Exists(f, SkillsDir) THEN << >>
    ELSE IF ~IsDir(f, SkillsDir) THEN << >>
    ELSE IF ~listable THEN << >>
    ELSE LET items == Children(f, Resolve(f, SkillsDir))
         IN SortByName(f, {c \in items : IsDir(f, c)})

\* discover_all on the service state d and the filesystem f
DiscoverAllOn(d, f) ==
    LET found == IF d.cache # NoCache THEN d.cache
                 ELSE Cached(ScanSkills(f, d.listable))
    IN  [d EXCEPT !.cache = found, !.returned = found, !.op = "discover",
                  !.cleared = FALSE, !.tick = 1 - @]

DiscoverAll ==
    /\ disc' = DiscoverAllOn(disc, fs)
    /\ UNCHANGED archive_vars
    /\ UNCHANGED <<val, pkg, vres>>

\* A clear_cache that leaves the cache as it is.
KeptCache(cache) == cache
\* self._cache = None
ClearedCache(cache) == NoCache

ClearCache ==
    /\ disc' = [disc EXCEPT !.cache = ClearedCache(@), !.op = "clear",
                            !.cleared = TRUE, !.tick = 1 - @]
    /\ UNCHANGED archive_vars
    /\ UNCHANGED <<val, pkg, vres>>

\* What happens to the skills directory between calls: a skill appears, a
\* skill goes away, the directory is created, its permissions change.
AddSkill ==
    /\ IsDir(fs, SkillsDir)
    /\ \E n \in NameSet :
        /\ SkillPath(n) \notin DOMAIN fs
        /\ fs' = SkillTree(n) @@ fs
    /\ UNCHANGED <<pc, source_dir, output_path, source_dir_path,
                   output_path_obj, temp_path, walk, exc, ret, pre, hist>>
    /\ UNCHANGED service_vars

RemoveSkill ==
    /\ \E n \in NameSet :
        /\ SkillPath(n) \in DOMAIN fs
        /\ fs' = [q \in {r \in DOMAIN fs : ~IsPrefix(SkillPath(n), r)} |-> fs[q]]
    /\ UNCHANGED <<pc, source_dir, output_path, source_dir_path,
                   output_path_obj, temp_path, walk, exc, ret, pre, hist>>
    /\ UNCHANGED service_vars

MakeSkillsDir ==
    /\ SkillsDir \notin DOMAIN fs
    /\ fs' = With(fs, SkillsDir, DirNode)
    /\ UNCHANGED <<pc, source_dir, output_path, source_dir_path,
                   output_path_obj, temp_path, walk, exc, ret, pre, hist>>
    /\ UNCHANGED service_vars

ChangeMode ==
    /\ disc' = [disc EXCEPT !.listable = ~@]
    /\ UNCHANGED archive_vars
    /\ UNCHANGED <<val, pkg, vres>>

InitDiscovery ==
    /\ fs \in DiscWorlds
    /\ ArchiveIdle
    /\ val = NoVal /\ pkg = NoPkg /\ vres = NoVres
    /\ \E l \in BOOLEAN : disc = [NoDisc EXCEPT !.listable = l]

NextDiscovery ==
    \/ DiscoverAll
    \/ ClearCache
    \/ AddSkill
    \/ RemoveSkill
    \/ MakeSkillsDir
    \/ ChangeMode

SpecDiscovery == InitDiscovery /\ [][NextDiscovery]_vars

(***************************************************************************)
(* Properties of discovery                                                 *)
(***************************************************************************)
\* The names of the directories the skills directory holds, in order:
\* what a listing of it shows.
DirectoryNames(f, listable) ==
    IF NodeAt(f, SkillsDir).kind = "dir" /\ listable
    THEN SelectSeq(SkillNames, LAMBDA n : NodeAt(f, SkillPath(n)).kind = "dir")
    ELSE << >>

NamesOf(skills) == [i \in 1..Len(skills) |-> skills[i].name]

DiscoverStep == disc'.tick # disc.tick /\ disc'.op = "discover"

\* C20: a discover_all that follows another, with no clear_cache between
\* them, returns the list the earlier one returned, whatever has become of
\* the skills directory; the first discover_all, and the first after a
\* clear_cache, returns the skills the directory holds at that moment.
C20_CachedUntilCleared ==
    [][DiscoverStep =>
          IF disc.returned # NoCache /\ ~disc.cleared
          THEN disc'.returned = disc.returned
          ELSE LET skills == disc'.returned.skills IN
               /\ disc'.returned.some
               /\ NamesOf(skills) = DirectoryNames(fs, disc.listable)
               /\ \A i \in 1..Len(skills) :
                      skills[i] = SkillInfo(fs, SkillPath(skills[i].name))]_vars

\* A discover_all has just returned a cached list that no longer shows
\* what the skills directory holds.
C20_Witness ==
    /\ disc.op = "discover"
    /\ disc.returned # NoCache
    /\ NamesOf(disc.returned.skills) # DirectoryNames(fs, disc.listable)
    /\ disc.listable
    /\ Len(disc.returned.skills) > 0

(***************************************************************************)
(* PackagingService                                                        *)
(*                                                                         *)
(* One service, built with a Config, its discovery service the one above.  *)
(* pkg.pc is the position in package_skills or package_single, pkg.op the  *)
(* method, pkg.arg its pattern or skill name, pkg.trace the calls made to  *)
(* the collaborators so far, pkg.result the PackagingResult being built.   *)
(* pkg.dc tells whether the environment variable DC is set.                *)
(* create_archive is taken by its outcome: it leaves the verified archive  *)
(* at the destination and returns, or raises and leaves the destination.   *)
(***************************************************************************)
OutputDirectory == <<"w", "dist", "skills">>

Patterns == {"", "ta", "zz"}
SingleNames == {"beta", "ghost", ""}

\* pattern_lower in skill.name.lower(), for these patterns and names
Contains(name, pattern) ==
    \/ pattern = ""
    \/ pattern = "ta" /\ name = "beta"

\* FuzzyMatcherService.match: the skills whose name contains the pattern,
\* sorted by name.
Match(pattern, skills) ==
    LET hits == SelectSeq(skills, LAMBDA s : Contains(s.name, pattern))
        names == {hits[i].name : i \in 1..Len(hits)}
        order == SelectSeq(SkillNames, LAMBDA n : n \in names)
    IN  [i \in 1..Len(order) |->
            hits[CHOOSE k \in 1..Len(hits) : hits[k].name = order[i]]]

Event(ev, name, current, total, ok) ==
    [ev |-> ev, name |-> name, current |-> current, total |-> total, ok |-> ok]
Did(ev) == Event(ev, "", 0, 0, TRUE)

PkgFinished == pkg.pc \in {"idle", "returned", "raised"}

PackageSkills ==
    /\ PkgFinished
    /\ \E pattern \in Patterns, skip_validation \in BOOLEAN, cb \in BOOLEAN :
        pkg' = [NoPkg EXCEPT !.pc = "validate", !.op = "package_skills",
                             !.arg = pattern, !.skip = skip_validation,
                             !.callback = cb, !.dc = pkg.dc]
    /\ UNCHANGED archive_vars
    /\ UNCHANGED <<val, disc, vres>>

PackageSingle ==
    /\ PkgFinished
    /\ \E skill_name \in SingleNames, skip_validation \in BOOLEAN :
        pkg' = [NoPkg EXCEPT !.pc = "validate", !.op = "package_single",
                             !.arg = skill_name, !.skip = skip_validation,
                             !.dc = pkg.dc]
    /\ UNCHANGED archive_vars
    /\ UNCHANGED <<val, disc, vres>>

PkgRaise(e, trace) ==
    pkg' = [pkg EXCEPT !.pc = "raised", !.exc = e, !.trace = trace]

\* ValidationService.validate_environment: DC is set, and the skills path,
\* if there is something at it, is a directory.
EnvironmentIsValid(f, dc) ==
    /\ dc
    /\ Exists(f, SkillsDir) => IsDir(f, SkillsDir)

\* A service that validates whatever it is told.
MustValidateAlways(skip_validation) == TRUE
\* if not skip_validation:
MustValidate(skip_validation) == ~skip_validation

\* The first lines of both methods: validate the environment unless told
\* not to, and raise PackagingError when it is not valid.
PkgValidate ==
    /\ pkg.pc = "validate"
    /\ LET next == IF pkg.op = "package_skills" THEN "mkdir" ELSE "discover"
           trace == Append(pkg.trace, Did("validate_environment"))
       IN  IF ~MustValidate(pkg.skip)
           THEN pkg' = [pkg EXCEPT !.pc = next]
           ELSE IF EnvironmentIsValid(fs, pkg.dc)
           THEN pkg' = [pkg EXCEPT !.pc = next, !.trace = trace,
                                   !.result.validated = TRUE]
           ELSE PkgRaise(Exc("PackagingError", "validation"), trace)
    /\ UNCHANGED archive_vars
    /\ UNCHANGED <<val, disc, vres>>

\* config.output_directory.mkdir(parents=True, exist_ok=True)
PkgMkdir ==
    /\ pkg.pc = "mkdir"
    /\ LET trace == Append(pkg.trace, Did("mkdir")) IN
       \/ /\ ~MkdirBlocked(fs, OutputDirectory)
          /\ fs' = FsMkdirs(fs, OutputDirectory, Len(OutputDirectory))
          /\ pkg' = [pkg EXCEPT !.trace = trace,
                       !.pc = IF pkg.op = "package_skills" THEN "discover"
                              ELSE "package"]
       \/ /\ PkgRaise(Exc("OSError", "none"), trace)
          /\ UNCHANGED fs
    /\ UNCHANGED <<pc, source_dir, output_path, source_dir_path,
                   output_path_obj, temp_path, walk, exc, ret, pre, hist>>
    /\ UNCHANGED <<val, disc, vres>>

\* ValidationService.validate_skill_name(skill_name, available_skills)
SkillNameIsValid(skill_name, available) ==
    skill_name # "" /\ skill_name \in available

\* discover_all, then match (package_skills) or validate_skill_name and
\* the search for the skill (package_single).
PkgDiscover ==
    /\ pkg.pc = "discover"
    /\ disc' = DiscoverAllOn(disc, fs)
    /\ LET all_skills == disc'.returned.skills
           trace == Append(pkg.trace, Did("discover_all"))
       IN  IF pkg.op = "package_skills"
           THEN LET matched_skills == Match(pkg.arg, all_skills) IN
                pkg' = [pkg EXCEPT
                          !.trace = trace,
                          !.matched = matched_skills,
                          !.index = 1,
                          !.result.total_skills = Len(matched_skills),
                          !.pc = IF matched_skills = << >> THEN "returned"
                                 ELSE "package"]
           ELSE IF SkillNameIsValid(pkg.arg, {all_skills[i].name :
                                                 i \in 1..Len(all_skills)})
           THEN pkg' = [pkg EXCEPT
                          !.trace = trace,
                          !.matched = SelectSeq(all_skills,
                                          LAMBDA s : s.name = pkg.arg),
                          !.index = 1,
                          !.pc = "mkdir"]
           ELSE PkgRaise(Exc("PackagingError", "skill name"), trace)
    /\ UNCHANGED archive_vars
    /\ UNCHANGED <<val, vres>>

\* The archive create_archive leaves: the files of the skill, under the
\* skill's name.
RECURSIVE EntriesOf(_, _, _)
EntriesOf(f, src, files) ==
    IF files = {} THEN << >>
    ELSE LET q == CHOOSE q \in files : TRUE
         IN <<[name |-> ArcName(q, src), data |-> f[q].data]>> \o
            EntriesOf(f, src, files \ {q})

SkillArchive(f, src) == Zip(EntriesOf(f, src, SourceFiles(f, src)), TRUE, "none")

\* output_path.stat().st_size
SizeOf(z) == 22 + 100 * Len(z.entries)

Packaged(skill, archive_path, z) ==
    [skill_name |-> skill.name, success |-> TRUE, output_path |-> archive_path,
     size_bytes |-> SizeOf(z), error |-> "None"]
NotPackaged(skill, message) ==
    [skill_name |-> skill.name, success |-> FALSE, output_path |-> Unbound,
     size_bytes |-> 0, error |-> message]

\* A total that keeps only the size of the skill packaged last.
LastSize(total, skill_result) == skill_result.size_bytes
\* result.total_size_bytes += skill_result.size_bytes
AddSize(total, skill_result) == total + skill_result.size_bytes

\* A callback told a count that starts at 0.
CallbackArgsFromZero(index, total, skill) ==
    Event("progress", skill.name, index - 1, total, TRUE)
\* progress_callback(index, len(matched_skills), skill.name)
CallbackArgs(index, total, skill) ==
    Event("progress", skill.name, index, total, TRUE)

\* A loop that gives up at the first failure.
StopAtFailure(skill_result) == skill_result.success
\* for index, skill in enumerate(matched_skills, start=1): no break
KeepGoing(skill_result) == TRUE

\* One turn of the loop of package_skills, or the last line of
\* package_single: _package_single_skill turns whatever create_archive
\* raises into a failed result; then the result is filed (for
\* package_single it is what the method returns) and the progress callback
\* called, which may raise.
PkgSkill ==
    /\ pkg.pc = "package"
    /\ LET skill == pkg.matched[pkg.index]
           archive_path == Append(OutputDirectory, skill.name \o ".zip")
           total == Len(pkg.matched)
           last(r) == pkg.index = total \/ ~KeepGoing(r)
           Filed(r) ==
               [pkg EXCEPT
                  !.trace = Append(@, Event("create_archive", skill.name,
                                            pkg.index, total, r.success)),
                  !.result.successful =
                      IF r.success THEN Append(@, r) ELSE @,
                  !.result.total_size_bytes =
                      IF r.success THEN AddSize(@, r) ELSE @,
                  !.result.failed = IF r.success THEN @ ELSE Append(@, r),
                  !.index = @ + 1,
                  !.pc = IF last(r) THEN "returned" ELSE "package"]
           Reported(r) ==
               LET g == Filed(r) IN
               IF ~pkg.callback \/ pkg.op = "package_single" THEN pkg' = g
               ELSE LET t == Append(g.trace, CallbackArgs(pkg.index, total, skill))
                    IN  \/ pkg' = [g EXCEPT !.trace = t]
                        \/ pkg' = [g EXCEPT !.trace = t, !.pc = "raised",
                                            !.exc = Exc("Exception", "callback")]
       IN  \/ /\ SourceIsValid(fs, skill.path)
              /\ IsDir(fs, OutputDirectory)
              /\ LET z == SkillArchive(fs, Resolve(fs, skill.path)) IN
                 /\ fs' = With(fs, archive_path, FileNode(z))
                 /\ Reported(Packaged(skill, archive_path, z))
           \/ /\ ~SourceIsValid(fs, skill.path)
              /\ Reported(NotPackaged(skill, "Source directory not found"))
              /\ UNCHANGED fs
           \/ /\ SourceIsValid(fs, skill.path)
              /\ Reported(NotPackaged(skill, "Failed to create archive"))
              /\ UNCHANGED fs
    /\ UNCHANGED <<pc, source_dir, output_path, source_dir_path,
                   output_path_obj, temp_path, walk, exc, ret, pre, hist>>
    /\ UNCHANGED <<val, disc, vres>>

PkgWorlds == {SkillsFs(NameSet), SkillsIsFileFs}

InitPackage ==
    /\ fs \in PkgWorlds
    /\ ArchiveIdle
    /\ val = NoVal /\ disc = NoDisc /\ vres = NoVres
    /\ \E dc \in BOOLEAN : pkg = [NoPkg EXCEPT !.dc = dc]

NextPackage ==
    \/ PackageSkills
    \/ PackageSingle
    \/ PkgValidate
    \/ PkgMkdir
    \/ PkgDiscover
    \/ PkgSkill
    \/ AddSkill
    \/ RemoveSkill

SpecPackage == InitPackage /\ [][NextPackage]_vars

(***************************************************************************)
(* Properties of packaging                                                 *)
(***************************************************************************)
Events(ev) == SelectSeq(pkg.trace, LAMBDA e : e.ev = ev)
SkillNamesOf(results) == [i \in 1..Len(results) |-> results[i].skill_name]
RangeOf(s) == {s[i] : i \in 1..Len(s)}

\* C18: when package_skills returns, create_archive was called once for
\* every matched skill, in the matched order; every matched skill is in
\* exactly one of successful and failed, the two counts add up to
\* total_skills; the skills whose create_archive raised are the failed
\* ones, each with an error message.
C18_EverySkillAttemptedOnce ==
    pkg.pc = "returned" /\ pkg.op = "package_skills" =>
        LET r == pkg.result
            attempts == Events("create_archive")
            ok == SkillNamesOf(r.successful)
            ko == SkillNamesOf(r.failed)
        IN  /\ [i \in 1..Len(attempts) |-> attempts[i].name] = NamesOf(pkg.matched)
            /\ RangeOf(ok) \cup RangeOf(ko) = RangeOf(NamesOf(pkg.matched))
            /\ RangeOf(ok) \cap RangeOf(ko) = {}
            /\ Len(r.successful) + Len(r.failed) = r.total_skills
            /\ r.total_skills = Len(pkg.matched)
            /\ \A i \in 1..Len(r.successful) : r.successful[i].success
            /\ \A i \in 1..Len(r.failed) :
                   ~r.failed[i].success /\ r.failed[i].error \notin {"", "None"}
            /\ RangeOf(ko) = {attempts[i].name : i \in {k \in 1..Len(attempts) :
                                                           ~attempts[k].ok}}

\* Of three matched skills the second failed, the first and the third
\* were packaged.
C18_Witness ==
    /\ pkg.pc = "returned" /\ pkg.op = "package_skills"
    /\ NamesOf(pkg.matched) = SkillNames
    /\ SkillNamesOf(pkg.result.failed) = <<"beta">>
    /\ SkillNamesOf(pkg.result.successful) = <<"alpha", "gamma">>

ValidationFailed == pkg.pc = "raised" /\ pkg.exc = Exc("PackagingError", "validation")

\* C19: a call that raised because the environment is not valid has called
\* validate_environment and nothing else (no discovery, no mkdir, no
\* create_archive), and the step that raised changed neither the
\* filesystem nor the discovery service; a call told to skip validation
\* never calls validate_environment.
C19_ValidationComesFirst ==
    /\ [](/\ ValidationFailed => pkg.trace = <<Did("validate_environment")>>
          /\ ~pkg.skip /\ ~EnvironmentIsValid(fs, pkg.dc)
                 /\ pkg.pc \notin {"idle", "validate"} => ValidationFailed
          /\ pkg.skip => Events("validate_environment") = << >>)
    /\ [][pkg.pc = "validate" /\ pkg'.pc = "raised" =>
              fs' = fs /\ disc' = disc]_vars

\* package_skills has raised on an environment without DC: nothing was
\* discovered, and the output directory was not created.
C19_Witness ==
    /\ ValidationFailed
    /\ pkg.op = "package_skills"
    /\ ~pkg.dc
    /\ disc.cache = NoCache
    /\ OutputDirectory \notin DOMAIN fs
    /\ IsDir(fs, SkillPath("alpha"))

RECURSIVE SumOfSizes(_)
SumOfSizes(results) ==
    IF results = << >> THEN 0
    ELSE Head(results).size_bytes + SumOfSizes(Tail(results))

\* C21: when package_skills returns, total_size_bytes is the sum of
\* size_bytes over the successful results; the failed results carry no
\* size and add nothing to it.
C21_TotalIsSumOfSuccessful ==
    pkg.pc = "returned" /\ pkg.op = "package_skills" =>
        /\ pkg.result.total_size_bytes = SumOfSizes(pkg.result.successful)
        /\ pkg.result.total_size_bytes =
               SumOfSizes(pkg.result.successful \o pkg.result.failed)

\* Two skills were packaged and one failed, and the total is more than
\* the size of either archive.
C21_Witness ==
    /\ pkg.pc = "returned" /\ pkg.op = "package_skills"
    /\ Len(pkg.result.successful) = 2
    /\ Len(pkg.result.failed) = 1
    /\ \A i \in 1..2 :
           /\ pkg.result.successful[i].size_bytes > 0
           /\ pkg.result.total_size_bytes > pkg.result.successful[i].size_bytes

\* The packaging attempts and the calls of the callback, in the order they
\* were made, and what they are when every matched skill was attempted and
\* reported: attempt 1, callback(1, total, name 1), attempt 2, ...
LoopTrace == SelectSeq(pkg.trace, LAMBDA e : e.ev \in {"create_archive", "progress"})
FullLoopTrace ==
    LET total == Len(pkg.matched) IN
    [k \in 1..(2 * total) |->
        LET i == (k + 1) \div 2 IN
        IF k % 2 = 1
        THEN [ev |-> "create_archive", name |-> pkg.matched[i].name,
              current |-> i, total |-> total]
        ELSE [ev |-> "progress", name |-> pkg.matched[i].name,
              current |-> i, total |-> total]]
Unmarked(events) ==
    [k \in 1..Len(events) |->
        [ev |-> events[k].ev, name |-> events[k].name,
         current |-> events[k].current, total |-> events[k].total]]
Progress(events) == SelectSeq(events, LAMBDA e : e.ev = "progress")
WithCallback == pkg.op = "package_skills" /\ pkg.callback

StepOrder == <<"source_check", "parent_dir", "scratch", "write", "scan", "rename">>
StepNames(events) == [i \in 1..Len(events) |-> events[i].step]
\* The steps taken so far, the cleanup of the except clause left out.
MainSteps(p) == SelectSeq(hist[p].steps, LAMBDA e : e.step # "cleanup")
Occurrences(p, step) == {i \in 1..Len(hist[p].steps) : hist[p].steps[i].step = step}
Passed(p, step, path) ==
    \E i \in Occurrences(p, step) :
        hist[p].steps[i].ok /\ hist[p].steps[i].path = path
FailedStep(p, step) == \E i \in Occurrences(p, step) : ~hist[p].steps[i].ok

\* C22: the steps of one call occur in the order source check, parent
\* directory, scratch file, write and close, integrity scan, rename; a
\* rename is attempted only after the write of this call's scratch file
\* completed and the scan of that same file passed, and never after a
\* failed write or scan; a call that returned has renamed a closed,
\* undamaged archive.
C22_StepsInOrder ==
    \A p \in Procs :
        /\ IsPrefix(StepNames(MainSteps(p)), StepOrder)
        /\ \A i \in Occurrences(p, "rename") :
               LET t == hist[p].steps[i].path IN
               /\ t = temp_path[p] /\ t # Unbound
               /\ Passed(p, "scratch", t)
               /\ Passed(p, "write", t)
               /\ Passed(p, "scan", t)
               /\ ~FailedStep(p, "write") /\ ~FailedStep(p, "scan")
               /\ hist[p].wrote /\ hist[p].verified
        /\ pc[p] = "returned" =>
               /\ Occurrences(p, "rename") # {}
               /\ IsGoodArchive(NodeAt(fs, Dest(p)).data)

\* A call has gone through all six steps and returned.
C22_Witness ==
    \E p \in Procs :
        /\ pc[p] = "returned"
        /\ StepNames(hist[p].steps) = StepOrder
        /\ \A i \in 1..Len(hist[p].steps) : hist[p].steps[i].ok
        /\ Len(NodeAt(fs, Dest(p)).data.entries) > 0

\* The scratch files in the filesystem that were not there when p's call
\* began.
NewScratchFiles(p) ==
    {t \in DOMAIN fs \ DOMAIN pre[p] : BaseName(t) \in TmpNames}

\* C23: in one call no step is taken twice (one scratch file, one write
\* phase, one integrity scan, one rename, one cleanup), a step that
\* failed is followed by nothing but the cleanup, and a call in which a
\* step failed ends raised.
C23_NoRetries ==
    \A p \in Procs :
        /\ \A step \in RangeOf(StepOrder) \cup {"cleanup"} :
               Cardinality(Occurrences(p, step)) <= 1
        /\ pc[p] # "idle" => Cardinality(NewScratchFiles(p)) <= 1
        /\ \A i \in 1..Len(hist[p].steps) :
               ~hist[p].steps[i].ok /\ hist[p].steps[i].step # "cleanup" =>
                   /\ pc[p] \in {"except", "raised"}
                   /\ i = Len(MainSteps(p))
                   /\ \A j \in (i + 1)..Len(hist[p].steps) :
                          hist[p].steps[j].step = "cleanup"
        /\ pc[p] = "returned" => \A i \in 1..Len(hist[p].steps) : hist[p].steps[i].ok
        /\ pc[p] = "raised" =>
               /\ exc[p] # NoExc
               /\ \E i \in 1..Len(hist[p].steps) : ~hist[p].steps[i].ok

\* A call whose integrity scan failed has raised: its last steps are the
\* failed scan and one cleanup, and no rename was tried.
C23_Witness ==
    \E p \in Procs :
        /\ pc[p] = "raised"
        /\ StepNames(hist[p].steps) =
               <<"source_check", "parent_dir", "scratch", "write", "scan", "cleanup">>
        /\ ~hist[p].steps[5].ok
        /\ hist[p].found = "badentry"

\* The destination's parent directory was missing when p's call began.
ParentWasMissing(p) == pc[p] # "idle" /\ ~Exists(pre[p], OutputDir(p))
LaterPhases == {"write", "scan", "rename"}

\* C24: when the destination's parent directory was missing and the source
\* is valid, the parent and every missing directory above it have been
\* created by the time a scratch file is created, nothing that was there
\* before is changed by it, and the directories stay for the rest of the
\* call, also when the write, the integrity scan or the rename fails.
C24_ParentCreatedAndKept ==
    \A p \in Procs :
        ParentWasMissing(p) /\ Passed(p, "source_check", Unbound) =>
            /\ Occurrences(p, "scratch") # {} => Passed(p, "parent_dir", Unbound)
            /\ Passed(p, "parent_dir", Unbound) =>
                   /\ \A q \in Prefixes(OutputDir(p)) : NodeAt(fs, q) = DirNode
                   /\ \A q \in DOMAIN pre[p] : NodeAt(fs, q) = pre[p][q]
            /\ (\E step \in LaterPhases : FailedStep(p, step)) =>
                   \A q \in Prefixes(OutputDir(p)) : NodeAt(fs, q) = DirNode

\* Two directories were missing above the destination; the call created
\* them, failed in a later phase and raised, and they are still there.
C24_Witness ==
    \E p \in Procs :
        /\ pc[p] = "raised"
        /\ ParentWasMissing(p)
        /\ Cardinality(MissingDirs(pre[p], OutputDir(p))) = 2
        /\ FailedStep(p, "rename")
        /\ \A q \in Prefixes(OutputDir(p)) : NodeAt(fs, q) = DirNode
        /\ DOMAIN fs = DOMAIN pre[p] \cup MissingDirs(pre[p], OutputDir(p))

\* The source_directory argument of p's call is a symlink to a directory.
SourceIsDirLink(p) ==
    /\ pc[p] # "idle"
    /\ IsSymlink(pre[p], source_dir[p])
    /\ IsDir(pre[p], source_dir[p])

\* C25: a source argument that is a symlink to a directory passes the
\* source check, the walk starts at the symlink's target, a returned call
\* has archived every regular file of the target with its content, and no
\* entry is a symlink of the tree or lies below one.
C25_SymlinkedRootResolvedOnce ==
    \A p \in Procs :
        SourceIsDirLink(p) =>
            LET src == pre[p][source_dir[p]].target IN
            /\ source_dir_path[p] = src
            /\ ~FailedStep(p, "source_check")
            /\ hist[p].scanned # {} => src \in hist[p].scanned
            /\ pc[p] = "returned" =>
                   /\ \A q \in SourceFiles(pre[p], src) :
                          \E i \in 1..Len(Archive(p).entries) :
                              Archive(p).entries[i] =
                                  [name |-> <<BaseName(src)>> \o RelativeTo(q, src),
                                   data |-> pre[p][q].data]
                   /\ \A i \in 1..Len(Archive(p).entries) :
                          NoLinkBelow(pre[p], src,
                                      Parent(src) \o Archive(p).entries[i].name)

\* A call on a symlink to a directory has returned an archive with the
\* target's two regular files, while the target also holds a file symlink
\* and a directory symlink.
C25_Witness ==
    \E p \in Procs :
        /\ pc[p] = "returned"
        /\ SourceIsDirLink(p)
        /\ IsSymlink(pre[p], Append(source_dir_path[p], "flink"))
        /\ IsSymlink(pre[p], Append(source_dir_path[p], "dlink"))
        /\ Len(Archive(p).entries) = 2
        /\ Cardinality(SourceFiles(pre[p], source_dir_path[p])) = 2

(***************************************************************************)
(* ValidationResult: two result objects changed through add_error,         *)
(* add_warning and merge only.                                             *)
(***************************************************************************)
MaxMessages == 3
Messages == {"m"}

\* A merge that takes the other result's messages but not its verdict.
MergeKeepingVerdict(self, other) ==
    [self EXCEPT !.errors = @ \o other.errors,
                 !.warnings = @ \o other.warnings]

\* self.errors.append(message); self.is_valid = False
AddError(self, message) ==
    [self EXCEPT !.errors = Append(@, message), !.is_valid = FALSE]

\* self.warnings.append(message)
AddWarning(self, message) == [self EXCEPT !.warnings = Append(@, message)]

\* self.errors.extend(other.errors); self.warnings.extend(other.warnings);
\* if not other.is_valid: self.is_valid = False
Merge(self, other) ==
    [self EXCEPT !.errors = @ \o other.errors,
                 !.warnings = @ \o other.warnings,
                 !.is_valid = IF ~other.is_valid THEN FALSE ELSE @]

ResultFrame == UNCHANGED archive_vars /\ UNCHANGED <<val, disc, pkg>>

ResultAddError ==
    /\ \E x \in ResultIds, message \in Messages :
        /\ Len(vres.obj[x].errors) < MaxMessages
        /\ vres' = [obj |-> [vres.obj EXCEPT ![x] = AddError(@, message)],
                    op |-> "add_error"]
    /\ ResultFrame

ResultAddWarning ==
    /\ \E x \in ResultIds, message \in Messages :
        /\ Len(vres.obj[x].warnings) < MaxMessages
        /\ vres' = [obj |-> [vres.obj EXCEPT ![x] = AddWarning(@, message)],
                    op |-> "add_warning"]
    /\ ResultFrame

\* x.merge(y); y may be x itself.
ResultMerge ==
    /\ \E x \in ResultIds, y \in ResultIds :
        /\ Len(vres.obj[x].errors) + Len(vres.obj[y].errors) <= MaxMessages
        /\ Len(vres.obj[x].warnings) + Len(vres.obj[y].warnings) <= MaxMessages
        /\ vres' = [obj |-> [vres.obj EXCEPT ![x] = Merge(@, vres.obj[y])],
                    op |-> "merge"]
    /\ ResultFrame

\* A result is dropped and a new default one takes its place.
ResultNew ==
    /\ \E x \in ResultIds :
        vres' = [obj |-> [vres.obj EXCEPT ![x] = DefaultResult], op |-> "new"]
    /\ ResultFrame

InitResult ==
    /\ fs = BaseFs
    /\ ArchiveIdle
    /\ ServicesIdle

NextResult == ResultAddError \/ ResultAddWarning \/ ResultMerge \/ ResultNew

SpecResult == InitResult /\ [][NextResult]_vars

\* C28: is_valid is true exactly when errors is empty; add_warning leaves
\* is_valid as it is; and no method makes a result valid again that was
\* not.
C28_ValidIffNoErrors ==
    /\ [](\A x \in ResultIds :
              vres.obj[x].is_valid <=> vres.obj[x].errors = << >>)
    /\ [][/\ vres'.op = "add_warning" =>
                 \A x \in ResultIds : vres'.obj[x].is_valid = vres.obj[x].is_valid
          /\ vres'.op \in {"add_error", "add_warning", "merge"} =>
                 \A x \in ResultIds : ~vres.obj[x].is_valid => ~vres'.obj[x].is_valid]_vars

\* A result with warnings and no error was merged with one that has an
\* error: it is now not valid, and holds the other's error.
C28_Witness ==
    /\ vres.op = "merge"
    /\ ~vres.obj["a"].is_valid
    /\ Len(vres.obj["a"].errors) = 1
    /\ Len(vres.obj["a"].warnings) = 2
    /\ vres.obj["b"].warnings = << >>
    /\ vres.obj["b"].errors = vres.obj["a"].errors

====
